---- MODULE Spec2Model ----
(***************************************************************************)
(* A model of the scripthash query core of electrs (src/src/query.rs):     *)
(* the Status value and its derived views, the status engine over the      *)
(* persisted index and the mempool tracker, the merkle proof, the fee      *)
(* estimator and the transaction cache.                                    *)
(***************************************************************************)
EXTENDS Integers, Sequences, FiniteSets, TLC

VARIABLES
    st,             \* StatusSpec: a Status value under construction
    view,           \* StatusSpec: the derived views of st
    chain,          \* the best chain: the block (its txids) at each height
    daemon_mempool, \* the daemon's mempool (txids)
    store,          \* app.read_store(): the persisted index rows
    tracker,        \* Query.tracker: the mempool tracker (its txns, its index)
    tx_cache,       \* Query.tx_cache: txid -> Transaction
    reply,          \* the answer of the status query that ran in this state
    block,          \* MerkleSpec: the txdata of the block the daemon returns
    merkle_reply,   \* MerkleSpec: the answer of the last get_merkle_proof
    fee_histogram,  \* FeeSpec: tracker.fee_histogram()
    fee_reply,      \* FeeSpec: the answer of the last estimate_fee
    calls,          \* CacheSpec: each thread's get_or_else call in progress
    loads,          \* CacheSpec: the loader invocations so far
    rwlock,         \* LockSpec: Query.tracker's lock: policy, readers, writer
    queries,        \* LockSpec: each thread's status call in progress
    updater,        \* LockSpec: the update_mempool call in progress
    tracker_version \* LockSpec: the updates applied to the tracker

statusVars == <<st, view>>
queryVars == <<chain, daemon_mempool, store, tracker, tx_cache, reply>>
merkleVars == <<block, merkle_reply>>
feeVars == <<fee_histogram, fee_reply>>
cacheVars == <<calls, loads>>
lockVars == <<rwlock, queries, updater, tracker_version>>
vars == <<statusVars, queryVars, merkleVars, feeVars, cacheVars, lockVars>>

(***************************************************************************)
(* Integer widths.  The code's u64, i64, u32 and i32 are modelled with the *)
(* same two's-complement arithmetic at a reduced number of bits.           *)
(***************************************************************************)
U64Bits == 4            \* bits of the model's u64 / i64 / usize
U32Bits == 3            \* bits of the model's u32 / i32
MaxRecords == 2         \* records pushed into one Status in StatusSpec

U64 == 2 ^ U64Bits
I64Half == 2 ^ (U64Bits - 1)
U32 == 2 ^ U32Bits
I32Half == 2 ^ (U32Bits - 1)

\* `x as i64` for a u64 x, and the wrap of an out-of-range i64 result.
AsI64(x) == IF x >= I64Half THEN x - U64 ELSE x
WrapI64(x) == AsI64(x % U64)
\* `x as i32` for a u32 x.
AsI32(x) == IF x >= I32Half THEN x - U32 ELSE x
\* the u32 that holds the mempool's synthetic height -1.
NegOneU32 == U32 - 1

\* The outcome of a call: the value it returned, or a panic (an overflow
\* check or an assert! that failed).
Returned(v) == <<"returned", v>>
Panic == <<"panic">>
\* Builds with and without overflow checks (debug / release profile).
OverflowChecks == BOOLEAN

(***************************************************************************)
(* Status and its records.                                                 *)
(***************************************************************************)
FundingOutput(txn_id, height, output_index, value) ==
    [txn_id |-> txn_id, height |-> height, output_index |-> output_index,
     value |-> value]

\* (mutation of SpendingInput: the outpoint names the spending transaction)
SpendingInput_of_spender(txn_id, height, funding_output, value) ==
    [txn_id |-> txn_id, height |-> height,
     funding_output |-> <<txn_id, funding_output[2]>>, value |-> value]

SpendingInput(txn_id, height, funding_output, value) ==
    [txn_id |-> txn_id, height |-> height, funding_output |-> funding_output,
     value |-> value]

Status(confirmed, mempool) == [confirmed |-> confirmed, mempool |-> mempool]

EmptyStatus == Status(<<<<>>, <<>>>>, <<<<>>, <<>>>>)

RECURSIVE SumValues(_)
SumValues(records) ==
    IF records = <<>> THEN 0
    ELSE Head(records).value + SumValues(Tail(records))

\* calc_balance: two u64 sums, each cast to i64, and an i64 subtraction.
\* With overflow checks a sum or a difference out of range panics;
\* without them it wraps.
calc_balance(pair, checks) ==
    LET funded == SumValues(pair[1])
        spent == SumValues(pair[2])
    IN  IF checks /\ (funded >= U64 \/ spent >= U64) THEN Panic
        ELSE LET d == AsI64(funded % U64) - AsI64(spent % U64)
             IN  IF d >= -I64Half /\ d < I64Half THEN Returned(d)
                 ELSE IF checks THEN Panic ELSE Returned(WrapI64(d))

Status_funding(s) == s.confirmed[1] \o s.mempool[1]
Status_spending(s) == s.confirmed[2] \o s.mempool[2]

Status_confirmed_balance(s, checks) == calc_balance(s.confirmed, checks)

\* (mutation of Status_mempool_balance: the balance over both sets)
Status_total_balance(s, checks) ==
    calc_balance(<<Status_funding(s), Status_spending(s)>>, checks)

Status_mempool_balance(s, checks) == calc_balance(s.mempool, checks)

\* (mutation of InsertHeights: the u32 height kept without the cast)
RECURSIVE InsertHeightsU32(_, _)
InsertHeightsU32(map, records) ==
    IF records = <<>> THEN map
    ELSE LET r == Head(records)
             m == [t \in DOMAIN map \cup {r.txn_id} |->
                      IF t = r.txn_id THEN r.height ELSE map[t]]
         IN  InsertHeightsU32(m, Tail(records))

\* HashMap::insert of (txn_id -> height as i32) for every record in order.
RECURSIVE InsertHeights(_, _)
InsertHeights(map, records) ==
    IF records = <<>> THEN map
    ELSE LET r == Head(records)
             m == [t \in DOMAIN map \cup {r.txn_id} |->
                      IF t = r.txn_id THEN AsI32(r.height) ELSE map[t]]
         IN  InsertHeights(m, Tail(records))

\* Ord of (i32, Sha256dHash): by height, then by txid.
PairLess(p, q) == p[1] < q[1] \/ (p[1] = q[1] /\ p[2] < q[2])

\* sort_unstable of a vector of distinct pairs.
RECURSIVE SortPairs(_)
SortPairs(S) ==
    IF S = {} THEN <<>>
    ELSE LET m == CHOOSE p \in S : \A q \in S \ {p} : PairLess(p, q)
         IN  <<m>> \o SortPairs(S \ {m})

Status_history(s) ==
    LET m1 == InsertHeights(<<>>, Status_funding(s))
        txns_map == InsertHeights(m1, Status_spending(s))
    IN  SortPairs({<<txns_map[t], t>> : t \in DOMAIN txns_map})

\* Sha256dHash: the model's txid is a number whose two base-16 digits are the
\* hash's bytes in memory order (the order its Ord compares).
TxidBytes(txid) == <<txid \div 16, txid % 16>>

HexDigit == <<"0", "1", "2", "3", "4", "5", "6", "7",
              "8", "9", "a", "b", "c", "d", "e", "f">>

\* (mutation of be_hex_string: the bytes in memory order)
le_hex_string(txid) ==
    HexDigit[TxidBytes(txid)[1] + 1] \o HexDigit[TxidBytes(txid)[2] + 1]

\* be_hex_string: the bytes reversed, each in hex.
be_hex_string(txid) ==
    HexDigit[TxidBytes(txid)[2] + 1] \o HexDigit[TxidBytes(txid)[1] + 1]

\* Display of an integer ("{}"), a leading '-' for a negative one.
RECURSIVE DecNat(_)
DecNat(n) ==
    IF n < 10 THEN HexDigit[n + 1]
    ELSE DecNat(n \div 10) \o HexDigit[(n % 10) + 1]

Decimal(n) == IF n < 0 THEN "-" \o DecNat(-n) ELSE DecNat(n)

\* Option<T>.
None == <<>>
Some(x) == <<x>>

\* SHA256 as an ideal hash: the digest stands for the bytes it was fed.
Sha256(data) == [sha256 |-> data]

\* sha2.input(part) for every history entry in order.
RECURSIVE HashInput(_, _)
HashInput(fed, txns) ==
    IF txns = <<>> THEN fed
    ELSE LET height == Head(txns)[1]
             txn_id == Head(txns)[2]
             part == be_hex_string(txn_id) \o ":" \o Decimal(height) \o ":"
         IN  HashInput(fed \o part, Tail(txns))

Status_hash(s) ==
    LET txns == Status_history(s)
    IN  IF txns = <<>> THEN None ELSE Some(Sha256(HashInput("", txns)))

(***************************************************************************)
(* StatusSpec: Status values of every shape, built record by record the    *)
(* way confirmed_status and mempool_status fill their vectors, with the    *)
(* derived views evaluated on each.                                        *)
(***************************************************************************)
StatusTxIds == {1, 16}
ConfirmedHeights == {1, 2}
MempoolHeights == {0, NegOneU32}
OutputIndexes == {0, 1}
Values == {0, 1, I64Half - 1, I64Half, U64 - 1}
FundingOutpoints == {<<1, 0>>}

FundingRecords(heights) ==
    {FundingOutput(t, h, i, v) :
        t \in StatusTxIds, h \in heights, i \in OutputIndexes, v \in Values}

SpendingRecords(heights) ==
    {SpendingInput(t, h, o, v) :
        t \in StatusTxIds, h \in heights, o \in FundingOutpoints, v \in Values}

RecordCount(s) ==
    Len(s.confirmed[1]) + Len(s.confirmed[2])
        + Len(s.mempool[1]) + Len(s.mempool[2])

Views(s) ==
    [confirmed_balance |-> [c \in OverflowChecks |-> Status_confirmed_balance(s, c)],
     mempool_balance |-> [c \in OverflowChecks |-> Status_mempool_balance(s, c)],
     history |-> Status_history(s),
     hash |-> Status_hash(s)]

StatusIdle ==
    /\ st = EmptyStatus
    /\ view = Views(EmptyStatus)

PushConfirmedFunding ==
    /\ RecordCount(st) < MaxRecords
    /\ \E f \in FundingRecords(ConfirmedHeights) :
          st' = Status(<<Append(st.confirmed[1], f), st.confirmed[2]>>, st.mempool)
    /\ view' = Views(st')
    /\ UNCHANGED <<queryVars, merkleVars, feeVars, cacheVars, lockVars>>

PushConfirmedSpending ==
    /\ RecordCount(st) < MaxRecords
    /\ \E i \in SpendingRecords(ConfirmedHeights) :
          st' = Status(<<st.confirmed[1], Append(st.confirmed[2], i)>>, st.mempool)
    /\ view' = Views(st')
    /\ UNCHANGED <<queryVars, merkleVars, feeVars, cacheVars, lockVars>>

PushMempoolFunding ==
    /\ RecordCount(st) < MaxRecords
    /\ \E f \in FundingRecords(MempoolHeights) :
          st' = Status(st.confirmed, <<Append(st.mempool[1], f), st.mempool[2]>>)
    /\ view' = Views(st')
    /\ UNCHANGED <<queryVars, merkleVars, feeVars, cacheVars, lockVars>>

PushMempoolSpending ==
    /\ RecordCount(st) < MaxRecords
    /\ \E i \in SpendingRecords(MempoolHeights) :
          st' = Status(st.confirmed, <<st.mempool[1], Append(st.mempool[2], i)>>)
    /\ view' = Views(st')
    /\ UNCHANGED <<queryVars, merkleVars, feeVars, cacheVars, lockVars>>

StatusNext ==
    \/ PushConfirmedFunding
    \/ PushConfirmedSpending
    \/ PushMempoolFunding
    \/ PushMempoolSpending

(***************************************************************************)
(* The chain, the daemon and the index rows.  The transactions of the      *)
(* model are a fixed family; which of them are broadcast, mined and        *)
(* tracked, and in which order, is left open.                              *)
(***************************************************************************)
MaxHeight == 3          \* blocks connected on top of the genesis block

OutPoint(txid, vout) == <<txid, vout>>
TxIn(txid, vout) == [previous_output |-> [txid |-> txid, vout |-> vout]]
TxOut(script_pubkey, value) == [script_pubkey |-> script_pubkey, value |-> value]
Transaction(txid, input, output) == [txid |-> txid, input |-> input, output |-> output]

\* A transaction of the genesis block funds 17 and 18; it pays no script
\* that is queried and is not indexed.
GenesisTxid == 1
TxIds == {17, 18, 33, 34, 49, 50}
Scripts == {"a", "b"}

\* 17 and 18 share a txid prefix, and so do 33 and 34.  33 spends an output
\* paying "a" and pays "a" twice; 49 spends an output of 33.  50 spends both
\* outputs of 17: it conflicts with 33 and with 49, and shares 49's prefix.
Tx(txid) ==
    CASE txid = 17 -> Transaction(17, <<TxIn(GenesisTxid, 0)>>,
                                      <<TxOut("a", 2), TxOut("b", 1)>>)
      [] txid = 18 -> Transaction(18, <<TxIn(GenesisTxid, 1)>>,
                                      <<TxOut("b", 1)>>)
      [] txid = 33 -> Transaction(33, <<TxIn(17, 0)>>,
                                      <<TxOut("a", 1), TxOut("a", 1)>>)
      [] txid = 34 -> Transaction(34, <<TxIn(18, 0)>>,
                                      <<TxOut("b", 1)>>)
      [] txid = 49 -> Transaction(49, <<TxIn(33, 0), TxIn(17, 1)>>,
                                      <<TxOut("b", 2)>>)
      [] txid = 50 -> Transaction(50, <<TxIn(17, 0), TxIn(17, 1)>>,
                                      <<TxOut("a", 3)>>)

\* compute_script_hash: SHA256 of the script, as an ideal hash.
compute_script_hash(script) == Sha256(script)
ScriptHashes == {compute_script_hash(s) : s \in Scripts}

\* HashPrefix: the leading bytes of a txid (here the first of its two).
HashPrefix(txid) == TxidBytes(txid)[1]

RangeOf(seq) == {seq[i] : i \in 1..Len(seq)}
Parents(txid) == {i.previous_output.txid : i \in RangeOf(Tx(txid).input)}
Spends(txid) ==
    {OutPoint(i.previous_output.txid, i.previous_output.vout) :
        i \in RangeOf(Tx(txid).input)}

\* The rows the indexer writes for one transaction at one height:
\* TxRow (txid, height), one TxOutRow per script paid, one TxInRow per input.
TxRow(txid, height) == [txid |-> txid, height |-> height]
TxOutRow(script_hash, txid) ==
    [script_hash |-> script_hash, txid_prefix |-> HashPrefix(txid)]
TxInRow(outpoint, txid) ==
    [funding |-> outpoint, txid_prefix |-> HashPrefix(txid)]

index_transaction(txid, height) ==
    [tx |-> {TxRow(txid, height)},
     txout |-> {TxOutRow(compute_script_hash(o.script_pubkey), txid) :
                   o \in RangeOf(Tx(txid).output)},
     txin |-> {TxInRow(p, txid) : p \in Spends(txid)}]

EmptyStore == [tx |-> {}, txout |-> {}, txin |-> {}]
AddRows(s, rows) ==
    [tx |-> s.tx \cup rows.tx, txout |-> s.txout \cup rows.txout,
     txin |-> s.txin \cup rows.txin]

\* The rows of a set of transactions, each at its height.
IndexAll(txids, height) ==
    [tx |-> UNION {index_transaction(t, height[t]).tx : t \in txids},
     txout |-> UNION {index_transaction(t, height[t]).txout : t \in txids},
     txin |-> UNION {index_transaction(t, height[t]).txin : t \in txids}]

Confirmed == UNION {RangeOf(chain[h]) : h \in 1..Len(chain)}
IsConfirmed(txid) == txid = GenesisTxid \/ txid \in Confirmed
SpentBy(txids) == UNION {Spends(t) : t \in txids}

\* get_header(height): the header index holds heights 0..best.
get_header(height) == IF height <= Len(chain) THEN Some(height) ELSE None

\* Tracker::update: the tracker takes the daemon's mempool; a transaction's
\* height is 0 when all its parents are confirmed and -1 (as u32) otherwise.
MempoolHeight(txid) ==
    IF \A p \in Parents(txid) : IsConfirmed(p) THEN 0 ELSE NegOneU32

Tracker_update ==
    [txns |-> daemon_mempool,
     index |-> IndexAll(daemon_mempool, [t \in daemon_mempool |-> MempoolHeight(t)])]

Tracker_get_txn(txid) == IF txid \in tracker.txns THEN Some(Tx(txid)) ELSE None

(***************************************************************************)
(* The status engine.                                                      *)
(***************************************************************************)
\* Result<T>.
Ok(x) == <<"ok", x>>
Err(e) == <<"err", e>>
IsOk(r) == r[1] = "ok"

TxnHeight(txn, height) == [txn |-> txn, height |-> height]

\* `let x = v; F(x)`: v is evaluated once and F reads the value.
Let(v, F(_)) == CHOOSE r \in {F(x) : x \in {v}} : TRUE
\* collect(): the elements of an iterator, in order, as a vector.
Collect(f) == f \o <<>>

RECURSIVE SortNat(_)
SortNat(S) ==
    IF S = {} THEN <<>>
    ELSE LET m == CHOOSE x \in S : \A y \in S : x <= y
         IN  <<m>> \o SortNat(S \ {m})

RECURSIVE FlattenVec(_)
FlattenVec(seqs) ==
    IF seqs = <<>> THEN <<>> ELSE Head(seqs) \o FlattenVec(Tail(seqs))
Flatten(seqs) == Let(Collect(seqs), FlattenVec)

\* The first element of a vector of results that is not Ok.
FirstFailure(results) ==
    results[CHOOSE i \in 1..Len(results) :
                /\ ~IsOk(results[i])
                /\ \A j \in 1..(i - 1) : IsOk(results[j])]
AllOk(results) == \A i \in 1..Len(results) : IsOk(results[i])

\* Scans return rows in key order.
txrows_by_prefix(s, txid_prefix) ==
    Let(SortPairs({<<r.txid, r.height>> :
                    r \in {x \in s.tx : HashPrefix(x.txid) = txid_prefix}}),
        LAMBDA keys : Collect([i \in 1..Len(keys) |-> TxRow(keys[i][1], keys[i][2])]))

txrow_by_txid(s, txid) ==
    IF \E r \in s.tx : r.txid = txid
    THEN Some(CHOOSE r \in s.tx : r.txid = txid)
    ELSE None

txids_by_script_hash(s, script_hash) ==
    SortNat({r.txid_prefix : r \in {x \in s.txout : x.script_hash = script_hash}})

txids_by_funding_output(s, txn_id, output_index) ==
    SortNat({r.txid_prefix :
                r \in {x \in s.txin : x.funding = OutPoint(txn_id, output_index)}})

\* daemon().gettransaction: the daemon knows every transaction.
Daemon_gettransaction(txid, blockhash) == Ok(Tx(txid))

lookup_confirmed_blockhash(tx_hash, block_height) ==
    IF Tracker_get_txn(tx_hash) /= None THEN Ok(None)
    ELSE LET row == txrow_by_txid(store, tx_hash)
         IN  IF block_height = None /\ row = None THEN Err("not indexed tx")
             ELSE LET height == IF block_height /= None
                                THEN block_height[1] ELSE row[1].height
                      header == get_header(height)
                  IN  IF header = None THEN Err("missing header")
                      ELSE Ok(Some(header[1]))

load_txn(tx_hash, block_height) ==
    Let(lookup_confirmed_blockhash(tx_hash, Some(block_height)),
        LAMBDA blockhash :
            IF ~IsOk(blockhash) THEN blockhash
            ELSE Daemon_gettransaction(tx_hash, blockhash[2]))

\* (mutation of get_or_else: the cache is keyed by the txid prefix)
get_or_else_by_prefix(txid, height) ==
    IF \E c \in DOMAIN tx_cache : HashPrefix(c) = HashPrefix(txid)
    THEN Ok(tx_cache[CHOOSE c \in DOMAIN tx_cache : HashPrefix(c) = HashPrefix(txid)])
    ELSE load_txn(txid, height)

\* TransactionCache::get_or_else as one call sees it: the cached
\* transaction, or else what load_txn returns.
get_or_else(txid, height) ==
    IF txid \in DOMAIN tx_cache THEN Ok(tx_cache[txid]) ELSE load_txn(txid, height)

\* The TxRows load_txns_by_prefix visits, in order.
RowsByPrefix(s, prefixes) ==
    Flatten([i \in 1..Len(prefixes) |-> txrows_by_prefix(s, prefixes[i])])

load_txns_by_prefix(s, prefixes) ==
    Let(RowsByPrefix(s, prefixes), LAMBDA rows :
        Let(Collect([i \in 1..Len(rows) |-> get_or_else(rows[i].txid, rows[i].height)]),
            LAMBDA got :
                IF ~AllOk(got) THEN FirstFailure(got)
                ELSE Ok(Collect([i \in 1..Len(rows) |->
                                    TxnHeight(got[i][2], rows[i].height)]))))

\* (mutation of SpendingInputsOf: the input's vout is not compared)
SpendingInputsOf_any_vout(txns, funding) ==
    Flatten([k \in 1..Len(txns) |->
        LET t == txns[k]
            hits == SelectSeq(t.txn.input, LAMBDA input :
                        input.previous_output.txid = funding.txn_id)
        IN  [i \in 1..Len(hits) |->
                SpendingInput(t.txn.txid, t.height,
                              OutPoint(funding.txn_id, funding.output_index),
                              funding.value)]])

\* The inputs of the loaded transactions that spend the funding output.
SpendingInputsOf(txns, funding) ==
    Flatten([k \in 1..Len(txns) |->
        LET t == txns[k]
            hits == SelectSeq(t.txn.input, LAMBDA input :
                        /\ input.previous_output.txid = funding.txn_id
                        /\ input.previous_output.vout = funding.output_index)
        IN  [i \in 1..Len(hits) |->
                SpendingInput(t.txn.txid, t.height,
                              OutPoint(funding.txn_id, funding.output_index),
                              funding.value)]])

find_spending_input(s, funding) ==
    Let(load_txns_by_prefix(s,
            txids_by_funding_output(s, funding.txn_id, funding.output_index)),
        LAMBDA spending_txns :
            IF ~IsOk(spending_txns) THEN spending_txns
            ELSE Let(SpendingInputsOf(spending_txns[2], funding),
                     LAMBDA spending_inputs :
                        IF Len(spending_inputs) > 1 THEN Panic
                        ELSE IF Len(spending_inputs) = 1
                             THEN Ok(Some(spending_inputs[1]))
                             ELSE Ok(None)))

\* (mutation of find_funding_outputs: no check of the output's script hash)
find_funding_outputs_unchecked(t, script_hash) ==
    Collect([i \in 1..Len(t.txn.output) |->
                FundingOutput(t.txn.txid, t.height, i - 1, t.txn.output[i].value)])

find_funding_outputs(t, script_hash) ==
    Let(SelectSeq(Collect([i \in 1..Len(t.txn.output) |-> i]), LAMBDA i :
            compute_script_hash(t.txn.output[i].script_pubkey) = script_hash),
        LAMBDA indexes :
            Collect([k \in 1..Len(indexes) |->
                        FundingOutput(t.txn.txid, t.height, indexes[k] - 1,
                                      t.txn.output[indexes[k]].value)]))

\* funding.extend(find_funding_outputs(..)) over the loaded transactions.
FundingOf(txns, script_hash) ==
    Flatten([k \in 1..Len(txns) |-> find_funding_outputs(txns[k], script_hash)])

\* The loop over funding outputs: the spending inputs found, or the first
\* error or panic.
SpendingOf(s, outputs) ==
    Let(Collect([i \in 1..Len(outputs) |-> find_spending_input(s, outputs[i])]),
        LAMBDA found :
            IF ~AllOk(found) THEN FirstFailure(found)
            ELSE Ok(Flatten([i \in 1..Len(found) |-> found[i][2]])))

\* The body shared by confirmed_status and mempool_status: the funding
\* outputs of the transactions a store lists for the script hash, and the
\* spending inputs that store lists for them and for the outputs in `more`.
StatusOver(s, script_hash, more) ==
    Let(load_txns_by_prefix(s, txids_by_script_hash(s, script_hash)),
        LAMBDA loaded :
            IF ~IsOk(loaded) THEN loaded
            ELSE Let(FundingOf(loaded[2], script_hash), LAMBDA funding :
                    Let(SpendingOf(s, funding \o more), LAMBDA spending :
                        IF ~IsOk(spending) THEN spending
                        ELSE Ok(<<funding, spending[2]>>))))

confirmed_status(script_hash) == StatusOver(store, script_hash, <<>>)

\* (mutation of mempool_status: the confirmed funding outputs are left out
\* of the spending lookup)
mempool_status_own(script_hash, confirmed_funding) ==
    StatusOver(tracker.index, script_hash, <<>>)

mempool_status(script_hash, confirmed_funding) ==
    StatusOver(tracker.index, script_hash, confirmed_funding)

Query_status(script_hash) ==
    Let(confirmed_status(script_hash), LAMBDA confirmed :
        IF ~IsOk(confirmed) THEN confirmed
        ELSE Let(mempool_status(script_hash, confirmed[2][1]), LAMBDA mp :
                IF ~IsOk(mp) THEN mp
                ELSE Ok(Status(confirmed[2], mp[2]))))

\* The txids load_txns_by_prefix fetched for a status(script_hash) that
\* returned `result`: each is in the transaction cache afterwards.
Query_loaded(script_hash, result) ==
    LET rowsOf(s, prefixes) == {r.txid : r \in RangeOf(RowsByPrefix(s, prefixes))}
        fundingRows(s) == rowsOf(s, txids_by_script_hash(s, script_hash))
        spendingRows(s, outputs) ==
            UNION {rowsOf(s, txids_by_funding_output(s, f.txn_id, f.output_index)) :
                      f \in RangeOf(outputs)}
    IN  IF ~IsOk(result) THEN {}
        ELSE fundingRows(store)
                \cup spendingRows(store, result[2].confirmed[1])
                \cup fundingRows(tracker.index)
                \cup spendingRows(tracker.index, Status_funding(result[2]))

\* HashMap::insert of ((txn_id, output_index) -> record) for every funding
\* record in order.
RECURSIVE InsertOutputs(_, _)
InsertOutputs(map, records) ==
    IF records = <<>> THEN map
    ELSE LET f == Head(records)
             key == OutPoint(f.txn_id, f.output_index)
             m == [k \in DOMAIN map \cup {key} |-> IF k = key THEN f ELSE map[k]]
         IN  InsertOutputs(m, Tail(records))

\* The vectors sort_unstable_by_key(height) may return for a set of
\* outputs: any order that ascends by the u32 height.
SortedByHeight(outputs) ==
    {v \in [1..Cardinality(outputs) -> outputs] :
        /\ \A i, j \in DOMAIN v : i /= j => v[i] /= v[j]
        /\ \A i, j \in DOMAIN v : i < j => v[i].height <= v[j].height}

\* (mutation of Status_unspent: no output is removed)
Status_unspent_all(s) ==
    LET outputs_map == InsertOutputs(<<>>, Status_funding(s))
    IN  SortedByHeight({outputs_map[k] : k \in DOMAIN outputs_map})

\* Status::unspent: every vector it may return.
Status_unspent(s) ==
    LET outputs_map == InsertOutputs(<<>>, Status_funding(s))
        spent == {i.funding_output : i \in RangeOf(Status_spending(s))}
    IN  SortedByHeight({outputs_map[k] : k \in DOMAIN outputs_map \ spent})

(***************************************************************************)
(* Spec: the daemon accepts transactions and blocks, the indexer writes    *)
(* the rows of each connected block, update_mempool refreshes the tracker, *)
(* and status queries run against whatever the two indexes hold.           *)
(***************************************************************************)
NoReply == <<>>

QueryIdle ==
    /\ chain = <<>>
    /\ daemon_mempool = {}
    /\ store = EmptyStore
    /\ tracker = [txns |-> {}, index |-> EmptyStore]
    /\ tx_cache = <<>>
    /\ reply = NoReply

\* Query::broadcast: the daemon takes a transaction whose parents it knows
\* and whose inputs nothing it knows spends.
broadcast(txid) ==
    /\ txid \notin daemon_mempool \cup Confirmed
    /\ \A p \in Parents(txid) : IsConfirmed(p) \/ p \in daemon_mempool
    /\ Spends(txid) \cap SpentBy(daemon_mempool \cup Confirmed) = {}
    /\ daemon_mempool' = daemon_mempool \cup {txid}
    /\ reply' = NoReply
    /\ UNCHANGED <<chain, store, tracker, tx_cache>>

\* A block is connected: its transaction leaves the daemon's mempool and
\* the indexer writes its rows.  The tracker is not told.
ConnectBlock(txid) ==
    /\ Len(chain) < MaxHeight
    /\ txid \notin Confirmed
    /\ \A p \in Parents(txid) : IsConfirmed(p)
    /\ Spends(txid) \cap SpentBy(Confirmed) = {}
    /\ chain' = Append(chain, <<txid>>)
    /\ daemon_mempool' = {m \in daemon_mempool \ {txid} : Spends(m) \cap Spends(txid) = {}}
    /\ store' = AddRows(store, index_transaction(txid, Len(chain) + 1))
    /\ reply' = NoReply
    /\ UNCHANGED <<tracker, tx_cache>>

\* Query::update_mempool.
update_mempool ==
    /\ tracker' = Tracker_update
    /\ reply' = NoReply
    /\ UNCHANGED <<chain, daemon_mempool, store, tx_cache>>

\* Query::status, the transactions it loaded left in the cache.  The reply
\* keeps the result of the call before it when that call asked for the same
\* script hash and nothing changed in between.
status(script_hash) ==
    /\ \E result \in {Query_status(script_hash)} :
       \E loaded \in {Query_loaded(script_hash, result)} :
          /\ reply' = [script_hash |-> script_hash, result |-> result,
                       loaded |-> loaded,
                       previous |-> IF reply /= NoReply
                                        /\ reply.script_hash = script_hash
                                    THEN Some(reply.result) ELSE None]
          /\ tx_cache' = [t \in DOMAIN tx_cache \cup loaded |-> Tx(t)]
    /\ UNCHANGED <<chain, daemon_mempool, store, tracker>>

(***************************************************************************)
(* The merkle proof (Query::get_merkle_proof).                             *)
(***************************************************************************)
MaxBlockTxs == 5        \* transactions in the block of MerkleSpec
BlockTxIds == 1..MaxBlockTxs
MerkleHeights == {0, 1}

\* tx.txid(): the hash of a transaction, as a Sha256dHash.
Transaction_txid(tx) == <<"txid", tx>>

\* Sha256dHash::from_data(left ++ right) as an ideal hash.
merklize(left, right) == <<"sha256d", left, right>>

\* iter().position(): the index of the first element equal to tx_hash.
Position(txids, tx_hash) ==
    LET found == {i \in 1..Len(txids) : txids[i] = tx_hash}
    IN  IF found = {} THEN None
        ELSE Some((CHOOSE i \in found : \A j \in found : i <= j) - 1)

\* (mutation of Sibling: the node itself joins the proof)
SiblingSelf(index) == index

\* index = if index % 2 == 0 { index + 1 } else { index - 1 }
Sibling(index) == IF index % 2 = 0 THEN index + 1 ELSE index - 1

\* txids.chunks(2).map(|pair| merklize(pair[0], pair[1])).collect()
Chunks2(txids) ==
    Collect([k \in 1..(Len(txids) \div 2) |-> merklize(txids[2 * k - 1], txids[2 * k])])

\* The while loop of get_merkle_proof, one iteration per level.
RECURSIVE MerkleLoop(_, _, _)
MerkleLoop(txids, index, merkle) ==
    IF Len(txids) <= 1 THEN merkle
    ELSE Let(IF Len(txids) % 2 /= 0 THEN Append(txids, txids[Len(txids)]) ELSE txids,
             LAMBDA padded :
                 MerkleLoop(Chunks2(padded), Sibling(index) \div 2,
                            Append(merkle, padded[Sibling(index) + 1])))

\* daemon.getblock(hash): the block of the one header MerkleSpec has.
Daemon_getblock(blockhash) == block

Query_get_merkle_proof(tx_hash, height) ==
    LET header_entry == get_header(height)
    IN  IF header_entry = None THEN Err("missing block")
        ELSE Let(Collect([i \in 1..Len(Daemon_getblock(header_entry[1])) |->
                             Transaction_txid(Daemon_getblock(header_entry[1])[i])]),
                 LAMBDA txids :
                     LET pos == Position(txids, tx_hash)
                     IN  IF pos = None THEN Err("missing txid")
                         ELSE Ok(<<MerkleLoop(txids, pos[1], <<>>), pos[1]>>))

MerkleIdle ==
    /\ block = <<>>
    /\ merkle_reply = NoReply

\* The daemon's block gains a transaction.
BlockAddTx(tx) ==
    /\ Len(block) < MaxBlockTxs
    /\ tx \notin RangeOf(block)
    /\ block' = Append(block, tx)
    /\ merkle_reply' = NoReply

get_merkle_proof(tx, height) ==
    /\ \E result \in {Query_get_merkle_proof(Transaction_txid(tx), height)} :
          merkle_reply' = [tx |-> tx, height |-> height, result |-> result]
    /\ UNCHANGED block

MerkleNext ==
    \/ \E tx \in BlockTxIds :
          BlockAddTx(tx) /\ UNCHANGED <<statusVars, queryVars, feeVars, cacheVars, lockVars>>
    \/ \E tx \in BlockTxIds, height \in MerkleHeights :
          get_merkle_proof(tx, height)
              /\ UNCHANGED <<statusVars, queryVars, feeVars, cacheVars, lockVars>>

(***************************************************************************)
(* The fee estimator (Query::estimate_fee).  A fee rate is a whole number  *)
(* of sat/B; usize has the width of u64.                                   *)
(***************************************************************************)
BlockVbytes == 3        \* the model's 1_000_000 vbytes of one block
MaxBuckets == 3         \* buckets of the fee histogram
MaxTargetBlocks == 6    \* the largest `blocks` asked for
FeeRates == 1..3
Vsizes == 1..(U32 - 1)
USIZE == U64

\* a * b on usize, a + b on u32: a build with overflow checks panics when
\* the result does not fit, a build without them wraps.
MulUsize(a, b, checks) ==
    IF a * b < USIZE THEN Returned(a * b)
    ELSE IF checks THEN Panic ELSE Returned((a * b) % USIZE)

AddU32(a, b, checks) ==
    IF a + b < U32 THEN Returned(a + b)
    ELSE IF checks THEN Panic ELSE Returned((a + b) % U32)

\* `x as u32` for a usize x.
AsU32(x) == x % U32

\* rate * 1e-5
Scale1e5(rate) == [num |-> rate, den |-> 100000]

\* The for loop of estimate_fee.
RECURSIVE FeeLoop(_, _, _, _, _)
FeeLoop(histogram, total_vsize, last_fee_rate, blocks_in_vbytes, checks) ==
    IF histogram = <<>> THEN Returned(last_fee_rate)
    ELSE LET fee_rate == Head(histogram)[1]
             vsize == Head(histogram)[2]
             sum == AddU32(total_vsize, vsize, checks)
         IN  IF sum = Panic THEN Panic
             ELSE IF sum[2] >= blocks_in_vbytes THEN Returned(fee_rate)
             ELSE FeeLoop(Tail(histogram), sum[2], fee_rate, blocks_in_vbytes, checks)

Query_estimate_fee(histogram, blocks, checks) ==
    LET product == MulUsize(blocks, BlockVbytes, checks)
    IN  IF product = Panic THEN Panic
        ELSE LET last_fee_rate == FeeLoop(histogram, 0, 0, AsU32(product[2]), checks)
             IN  IF last_fee_rate = Panic THEN Panic
                 ELSE Returned(Scale1e5(last_fee_rate[2]))

FeeIdle ==
    /\ fee_histogram = <<>>
    /\ fee_reply = NoReply

\* The tracker's histogram gains a bucket of a lower fee rate.
AddBucket(fee_rate, vsize) ==
    /\ Len(fee_histogram) < MaxBuckets
    /\ fee_histogram /= <<>> => fee_rate < fee_histogram[Len(fee_histogram)][1]
    /\ fee_histogram' = Append(fee_histogram, <<fee_rate, vsize>>)
    /\ fee_reply' = NoReply

estimate_fee(blocks, checks) ==
    /\ \E result \in {Query_estimate_fee(fee_histogram, blocks, checks)} :
          fee_reply' = [blocks |-> blocks, checks |-> checks, result |-> result]
    /\ UNCHANGED fee_histogram

FeeNext ==
    \/ \E fee_rate \in FeeRates, vsize \in Vsizes :
          AddBucket(fee_rate, vsize)
              /\ UNCHANGED <<statusVars, queryVars, merkleVars, cacheVars, lockVars>>
    \/ \E blocks \in 0..MaxTargetBlocks, checks \in OverflowChecks :
          estimate_fee(blocks, checks)
              /\ UNCHANGED <<statusVars, queryVars, merkleVars, cacheVars, lockVars>>

(***************************************************************************)
(* The transaction cache under concurrent calls                            *)
(* (TransactionCache::get_or_else).  A call is three steps: the lookup     *)
(* under the read lock, the loader, the insert under the write lock.  A    *)
(* loaded transaction carries the number of the loader invocation that     *)
(* made it, so that two copies of one transaction can be told apart.       *)
(***************************************************************************)
NumThreads == 2         \* threads calling get_or_else
MaxLoads == 3           \* loader invocations
Threads == 1..NumThreads
CacheTxIds == {17, 18}

LoadedTransaction(txid, load) == [txid |-> txid, load |-> load]

\* HashMap::get
HashMap_get(map, key) == IF key \in DOMAIN map THEN Some(map[key]) ELSE None

\* (mutation of HashMap_insert: the value already there is kept)
HashMap_or_insert(map, key, value) ==
    [k \in DOMAIN map \cup {key} |-> IF k \in DOMAIN map THEN map[k] ELSE value]

\* HashMap::insert
HashMap_insert(map, key, value) ==
    [k \in DOMAIN map \cup {key} |-> IF k = key THEN value ELSE map[k]]

NoCall == [pc |-> "idle", txid |-> 0, txn |-> None, result |-> None]

CacheIdle ==
    /\ calls = [th \in Threads |-> NoCall]
    /\ loads = 0

\* self.map.read().unwrap().get(txid): a hit returns the clone.
CacheLookup(th, txid) ==
    /\ calls[th].pc = "idle"
    /\ \E txn \in {HashMap_get(tx_cache, txid)} :
          calls' = [calls EXCEPT ![th] =
                       IF txn /= None
                       THEN [pc |-> "done", txid |-> txid, txn |-> txn,
                             result |-> Some(Ok(txn[1]))]
                       ELSE [pc |-> "load", txid |-> txid, txn |-> None,
                             result |-> None]]
    /\ UNCHANGED <<tx_cache, loads>>

\* load_txn_func()?: the loader returns a transaction or an error.
CacheLoad(th, ok) ==
    /\ calls[th].pc = "load"
    /\ loads < MaxLoads
    /\ loads' = loads + 1
    /\ calls' = [calls EXCEPT ![th] =
                    IF ok
                    THEN [@ EXCEPT !.pc = "insert",
                                   !.txn = Some(LoadedTransaction(calls[th].txid, loads + 1))]
                    ELSE [@ EXCEPT !.pc = "done", !.result = Some(Err("load_txn"))]]
    /\ UNCHANGED tx_cache

\* self.map.write().unwrap().insert(*txid, txn.clone()); Ok(txn)
CacheInsert(th) ==
    /\ calls[th].pc = "insert"
    /\ tx_cache' = HashMap_insert(tx_cache, calls[th].txid, calls[th].txn[1])
    /\ calls' = [calls EXCEPT ![th] =
                    [@ EXCEPT !.pc = "done", !.result = Some(Ok(calls[th].txn[1]))]]
    /\ UNCHANGED loads

\* The caller takes the result.
CacheReturn(th) ==
    /\ calls[th].pc = "done"
    /\ calls' = [calls EXCEPT ![th] = NoCall]
    /\ UNCHANGED <<tx_cache, loads>>

cacheOthers ==
    <<statusVars, chain, daemon_mempool, store, tracker, reply, merkleVars, feeVars,
      lockVars>>

CacheNext ==
    \/ \E th \in Threads, txid \in CacheTxIds :
          CacheLookup(th, txid) /\ UNCHANGED cacheOthers
    \/ \E th \in Threads, ok \in BOOLEAN :
          CacheLoad(th, ok) /\ UNCHANGED cacheOthers
    \/ \E th \in Threads : CacheInsert(th) /\ UNCHANGED cacheOthers
    \/ \E th \in Threads : CacheReturn(th) /\ UNCHANGED cacheOthers

(***************************************************************************)
(* The tracker lock (Query.tracker: RwLock<Tracker>).  A status call is    *)
(* followed statement by statement through the points where it takes and   *)
(* drops the lock; update_mempool takes it exclusively.  The tracker is    *)
(* abstracted to the number of updates applied to it.  std's RwLock leaves *)
(* open whether a read() is granted while a writer waits and whether a     *)
(* read() by a thread that holds the lock panics: each policy is modelled, *)
(* one per behaviour.                                                      *)
(***************************************************************************)
MaxUpdates == 2         \* update_mempool calls
LockPolicies == {"readers_first", "writers_first", "reentry_panics"}

\* RwLock::read() returns at once: no writer holds the lock, and no writer
\* waits when the lock prefers writers.
CanRead ==
    /\ ~rwlock.writer
    /\ rwlock.policy = "readers_first" \/ updater /= "write_wait"

\* (mutation of CanWrite: the guards of the readers are not waited for)
CanWriteUnguarded == ~rwlock.writer

\* RwLock::write() returns at once: nobody holds the lock.
CanWrite ==
    /\ ~rwlock.writer
    /\ \A q \in Threads : rwlock.readers[q] = 0

ReadLocked(q) == [rwlock EXCEPT !.readers[q] = @ + 1]
ReadUnlocked(q) == [rwlock EXCEPT !.readers[q] = @ - 1]

NoQuery == [pc |-> "idle", seen |-> {}]

LockStart(policy) ==
    /\ rwlock = [policy |-> policy, readers |-> [q \in Threads |-> 0],
                 writer |-> FALSE]
    /\ queries = [q \in Threads |-> NoQuery]
    /\ updater = "idle"
    /\ tracker_version = 0

\* One statement of thread q's call; `to` is where it goes next.
QueryStep(q, from, to) ==
    /\ queries[q].pc = from
    /\ queries' = [queries EXCEPT ![q].pc = to]

\* status(): confirmed_status() begins.
StatusCall(q) ==
    /\ QueryStep(q, "idle", "confirmed")
    /\ UNCHANGED <<rwlock, updater, tracker_version>>

\* confirmed_status(): a transaction comes from the cache, or load_txn
\* asks lookup_confirmed_blockhash, which takes the lock for one
\* expression; then mempool_status() is next.
ConfirmedLoad(q, miss) ==
    /\ IF miss
       THEN /\ CanRead
            /\ QueryStep(q, "confirmed", "confirmed_lookup")
            /\ rwlock' = ReadLocked(q)
       ELSE /\ QueryStep(q, "confirmed", "mempool")
            /\ UNCHANGED rwlock
    /\ UNCHANGED <<updater, tracker_version>>

\* the temporary guard of lookup_confirmed_blockhash is dropped.
ConfirmedLookupDone(q) ==
    /\ QueryStep(q, "confirmed_lookup", "confirmed")
    /\ rwlock' = ReadUnlocked(q)
    /\ UNCHANGED <<updater, tracker_version>>

\* mempool_status(): let tracker = self.tracker.read().unwrap()
MempoolLock(q) ==
    /\ CanRead
    /\ QueryStep(q, "mempool", "scan")
    /\ rwlock' = ReadLocked(q)
    /\ UNCHANGED <<updater, tracker_version>>

\* txids_by_script_hash(tracker.index(), ..): the first read of the tracker.
MempoolScan(q) ==
    /\ queries[q].pc = "scan"
    /\ queries' = [queries EXCEPT ![q] =
                      [pc |-> "load", seen |-> @.seen \cup {tracker_version}]]
    /\ UNCHANGED <<rwlock, updater, tracker_version>>

\* load_txns_by_prefix(tracker.index(), ..): a cache hit, or load_txn and
\* lookup_confirmed_blockhash, which calls self.tracker.read() while the
\* guard of mempool_status is held.
MempoolLoad(q, miss) ==
    /\ queries[q].pc = "load"
    /\ IF miss
       THEN /\ QueryStep(q, "load", "lookup_read")
            /\ UNCHANGED rwlock
       ELSE /\ queries' = [queries EXCEPT ![q] =
                              [pc |-> "spending",
                               seen |-> @.seen \cup {tracker_version}]]
            /\ UNCHANGED rwlock
    /\ UNCHANGED <<updater, tracker_version>>

\* lookup_confirmed_blockhash: self.tracker.read().unwrap().get_txn(..)
LookupRead(q) ==
    /\ rwlock.policy /= "reentry_panics"
    /\ CanRead
    /\ QueryStep(q, "lookup_read", "lookup")
    /\ rwlock' = ReadLocked(q)
    /\ UNCHANGED <<updater, tracker_version>>

\* read() on a lock the thread already holds "might panic": the call
\* unwinds and the guard of mempool_status is dropped.
LookupPanic(q) ==
    /\ rwlock.policy = "reentry_panics"
    /\ queries[q].pc = "lookup_read"
    /\ queries' = [queries EXCEPT ![q] = NoQuery]
    /\ rwlock' = ReadUnlocked(q)
    /\ UNCHANGED <<updater, tracker_version>>

\* get_txn read the tracker; the temporary guard is dropped.
LookupDone(q) ==
    /\ queries[q].pc = "lookup"
    /\ queries' = [queries EXCEPT ![q] =
                      [pc |-> "load", seen |-> @.seen \cup {tracker_version}]]
    /\ rwlock' = ReadUnlocked(q)
    /\ UNCHANGED <<updater, tracker_version>>

\* find_spending_input(tracker.index(), ..) for the funding outputs: the
\* last read of the tracker.
MempoolSpending(q) ==
    /\ queries[q].pc = "spending"
    /\ queries' = [queries EXCEPT ![q] =
                      [pc |-> "return", seen |-> @.seen \cup {tracker_version}]]
    /\ UNCHANGED <<rwlock, updater, tracker_version>>

\* mempool_status returns: its guard goes out of scope; status() returns.
MempoolReturn(q) ==
    /\ queries[q].pc = "return"
    /\ queries' = [queries EXCEPT ![q] = NoQuery]
    /\ rwlock' = ReadUnlocked(q)
    /\ UNCHANGED <<updater, tracker_version>>

\* update_mempool(): self.tracker.write() is called.
UpdateCall ==
    /\ updater = "idle"
    /\ tracker_version < MaxUpdates
    /\ updater' = "write_wait"
    /\ UNCHANGED <<rwlock, queries, tracker_version>>

\* write() returns the exclusive guard.
UpdateLock ==
    /\ updater = "write_wait"
    /\ CanWrite
    /\ updater' = "writing"
    /\ rwlock' = [rwlock EXCEPT !.writer = TRUE]
    /\ UNCHANGED <<queries, tracker_version>>

\* Tracker::update ran; the exclusive guard is dropped.
UpdateDone ==
    /\ updater = "writing"
    /\ updater' = "idle"
    /\ tracker_version' = tracker_version + 1
    /\ rwlock' = [rwlock EXCEPT !.writer = FALSE]
    /\ UNCHANGED queries

lockOthers == <<statusVars, queryVars, merkleVars, feeVars, cacheVars>>

LockNext ==
    \/ \E q \in Threads : StatusCall(q) /\ UNCHANGED lockOthers
    \/ \E q \in Threads, miss \in BOOLEAN : ConfirmedLoad(q, miss) /\ UNCHANGED lockOthers
    \/ \E q \in Threads : ConfirmedLookupDone(q) /\ UNCHANGED lockOthers
    \/ \E q \in Threads : MempoolLock(q) /\ UNCHANGED lockOthers
    \/ \E q \in Threads : MempoolScan(q) /\ UNCHANGED lockOthers
    \/ \E q \in Threads, miss \in BOOLEAN : MempoolLoad(q, miss) /\ UNCHANGED lockOthers
    \/ \E q \in Threads : LookupRead(q) /\ UNCHANGED lockOthers
    \/ \E q \in Threads : LookupPanic(q) /\ UNCHANGED lockOthers
    \/ \E q \in Threads : LookupDone(q) /\ UNCHANGED lockOthers
    \/ \E q \in Threads : MempoolSpending(q) /\ UNCHANGED lockOthers
    \/ \E q \in Threads : MempoolReturn(q) /\ UNCHANGED lockOthers
    \/ UpdateCall /\ UNCHANGED lockOthers
    \/ UpdateLock /\ UNCHANGED lockOthers
    \/ UpdateDone /\ UNCHANGED lockOthers

(***************************************************************************)
(* The specifications.                                                     *)
(***************************************************************************)
Init ==
    /\ StatusIdle /\ QueryIdle /\ MerkleIdle /\ FeeIdle /\ CacheIdle
    /\ LockStart("readers_first")

LockInit ==
    /\ StatusIdle /\ QueryIdle /\ MerkleIdle /\ FeeIdle /\ CacheIdle
    /\ \E policy \in LockPolicies : LockStart(policy)

Next ==
    \/ \E txid \in TxIds :
          broadcast(txid) /\ UNCHANGED <<statusVars, merkleVars, feeVars, cacheVars, lockVars>>
    \/ \E txid \in TxIds :
          ConnectBlock(txid) /\ UNCHANGED <<statusVars, merkleVars, feeVars, cacheVars, lockVars>>
    \/ update_mempool /\ UNCHANGED <<statusVars, merkleVars, feeVars, cacheVars, lockVars>>
    \/ \E script_hash \in ScriptHashes :
          status(script_hash) /\ UNCHANGED <<statusVars, merkleVars, feeVars, cacheVars, lockVars>>

Spec == Init /\ [][Next]_vars

StatusSpec == Init /\ [][StatusNext]_vars

MerkleSpec == Init /\ [][MerkleNext]_vars

FeeSpec == Init /\ [][FeeNext]_vars

CacheSpec == Init /\ [][CacheNext]_vars

LockSpec == LockInit /\ [][LockNext]_vars

(***************************************************************************)
(* Claims about the derived views (StatusSpec).                            *)
(***************************************************************************)
MathBalance(pair) == SumValues(pair[1]) - SumValues(pair[2])
FitsI64(pair) == SumValues(pair[1]) < I64Half /\ SumValues(pair[2]) < I64Half

\* C1 as stated: for every Status, in every build, confirmed_balance() is
\* the sum of the confirmed funding values minus the sum of the confirmed
\* spending values, and mempool_balance() the same over the mempool records.
C1_BalanceEveryStatus ==
    \A c \in OverflowChecks :
        /\ view.confirmed_balance[c] = Returned(MathBalance(st.confirmed))
        /\ view.mempool_balance[c] = Returned(MathBalance(st.mempool))

\* C1 amended: the same equalities for every set of records whose funding
\* sum and spending sum are both below 2^63 (half the u64 range), each
\* balance reading only its own set.
C1_BalanceWithinI64 ==
    \A c \in OverflowChecks :
        /\ FitsI64(st.confirmed) =>
              view.confirmed_balance[c] = Returned(MathBalance(st.confirmed))
        /\ FitsI64(st.mempool) =>
              view.mempool_balance[c] = Returned(MathBalance(st.mempool))

\* C1 witness: a confirmed funding and a mempool funding of different
\* non-zero values within range, each balance showing its own set alone.
C1_Witness ==
    /\ Len(st.confirmed[1]) = 1 /\ Len(st.mempool[1]) = 1
    /\ FitsI64(st.confirmed) /\ FitsI64(st.mempool)
    /\ st.confirmed[1][1].value = I64Half - 1
    /\ st.mempool[1][1].value = 1
    /\ view.confirmed_balance[TRUE] = Returned(I64Half - 1)
    /\ view.mempool_balance[TRUE] = Returned(1)

Records(s) ==
    {Status_funding(s)[i] : i \in 1..Len(Status_funding(s))}
        \cup {Status_spending(s)[i] : i \in 1..Len(Status_spending(s))}

SignedHeight(h) == IF h = NegOneU32 THEN -1 ELSE h

\* C2: history() holds exactly the txids of the funding and spending
\* records, each once, each with the signed height of one of its records,
\* strictly ascending by (height, txid): -1 before 0 before confirmed.
C2_HistorySortedDistinct ==
    LET h == view.history
    IN  /\ {h[i][2] : i \in 1..Len(h)} = {r.txn_id : r \in Records(st)}
        /\ \A i, j \in 1..Len(h) : i /= j => h[i][2] /= h[j][2]
        /\ \A i \in 1..Len(h) :
              /\ h[i][1] >= -1
              /\ \E r \in Records(st) :
                    r.txn_id = h[i][2] /\ SignedHeight(r.height) = h[i][1]
        /\ \A i \in 1..(Len(h) - 1) :
              \/ h[i][1] < h[i + 1][1]
              \/ (h[i][1] = h[i + 1][1] /\ h[i][2] < h[i + 1][2])

\* C2 witness: a history whose first entry is an unconfirmed-parent mempool
\* entry (-1) of the larger txid, followed by a confirmed entry.
C2_Witness ==
    /\ Len(view.history) = 2
    /\ view.history[1][1] = -1
    /\ view.history[2][1] > 0
    /\ view.history[1][2] > view.history[2][2]

ExpectedHex(txid) == HexDigit[(txid % 16) + 1] \o HexDigit[(txid \div 16) + 1]

RECURSIVE ExpectedPreimage(_)
ExpectedPreimage(h) ==
    IF h = <<>> THEN ""
    ELSE ExpectedHex(h[1][2]) \o ":" \o Decimal(h[1][1]) \o ":"
            \o ExpectedPreimage(Tail(h))

C4_HashState ==
    /\ view.hash = None <=> view.history = <<>>
    /\ view.history /= <<>> =>
          view.hash = Some(Sha256(ExpectedPreimage(view.history)))

\* C4: hash() is null exactly when history() is empty, otherwise the SHA256
\* of hex(txid big-endian) ':' decimal(height) ':' per history entry in
\* order; a pushed record that leaves the history as it was (another value,
\* output index or set) leaves the hash as it was.
C4_HashOfHistory ==
    /\ []C4_HashState
    /\ [][view'.history = view.history => view'.hash = view.hash]_vars

\* C4 witness: two records of one transaction that differ in value, output
\* index and set, one history entry, a hash.
C4_Witness ==
    /\ Len(st.confirmed[1]) = 1 /\ Len(st.mempool[2]) = 1
    /\ st.confirmed[1][1].txn_id = st.mempool[2][1].txn_id
    /\ st.confirmed[1][1].value /= st.mempool[2][1].value
    /\ Len(view.history) = 1
    /\ view.history[1][1] = -1
    /\ view.hash /= None

(***************************************************************************)
(* Claims about the status engine (Spec).                                  *)
(***************************************************************************)
Answered == reply /= NoReply /\ IsOk(reply.result)
KeysOf(outputs) == {OutPoint(f.txn_id, f.output_index) : f \in RangeOf(outputs)}
SpentKeys(s) == {i.funding_output : i \in RangeOf(Status_spending(s))}

\* C3: for a Status returned by status(S), the outpoints of unspent() and
\* the outpoints the spending records reference are disjoint, and together
\* they are the outpoints of the funding records; unspent() lists each of
\* its outpoints once.
C3_UnspentPartition ==
    Answered =>
        \A u \in Status_unspent(reply.result[2]) :
            /\ KeysOf(u) \cap SpentKeys(reply.result[2]) = {}
            /\ KeysOf(u) \cup SpentKeys(reply.result[2])
                    = KeysOf(Status_funding(reply.result[2]))
            /\ Cardinality(KeysOf(u)) = Len(u)

\* C3 witness: a returned Status with a spent confirmed output and two
\* unspent mempool outputs.
C3_Witness ==
    /\ Answered
    /\ SpentKeys(reply.result[2]) = {OutPoint(17, 0)}
    /\ \E u \in Status_unspent(reply.result[2]) :
          KeysOf(u) = {OutPoint(33, 0), OutPoint(33, 1)}

RECURSIVE SumAmounts(_)
SumAmounts(outpoints) ==
    IF outpoints = {} THEN 0
    ELSE LET o == CHOOSE x \in outpoints : TRUE
         IN  Tx(o[1]).output[o[2] + 1].value + SumAmounts(outpoints \ {o})

\* The oracle: the transactions of the indexed blocks and of the tracked
\* mempool, each once; the outputs among them that pay a script hash.
OracleTxs == Confirmed \cup tracker.txns
OraclePaying(script_hash) ==
    {OutPoint(t, i - 1) : t \in OracleTxs, i \in 1..2} \cap
    {o \in TxIds \X {0, 1} :
        /\ o[2] < Len(Tx(o[1]).output)
        /\ compute_script_hash(Tx(o[1]).output[o[2] + 1].script_pubkey) = script_hash}
OracleBalance(script_hash) ==
    SumAmounts(OraclePaying(script_hash))
        - SumAmounts(OraclePaying(script_hash) \cap SpentBy(OracleTxs))

\* C5 as stated: after any sequence of block connections and mempool
\* updates, confirmed_balance + mempool_balance of status(S) is the oracle's
\* sum of the outputs paying S minus its sum of the spent outputs paying S.
C5_TotalBalanceIsOracle ==
    Answered =>
        \A c \in OverflowChecks :
            LET confirmed == Status_confirmed_balance(reply.result[2], c)
                unconfirmed == Status_mempool_balance(reply.result[2], c)
            IN  /\ confirmed /= Panic /\ unconfirmed /= Panic
                /\ confirmed[2] + unconfirmed[2] = OracleBalance(reply.script_hash)

\* The sum is the oracle's whenever the tracker holds the daemon's mempool
\* as it is now: no transaction that has been confirmed or evicted since
\* the last update_mempool.
FreshTrackerBalance ==
    (tracker.txns = daemon_mempool) => C5_TotalBalanceIsOracle

PaysScript(f, script_hash) ==
    /\ f.txn_id \in TxIds
    /\ f.output_index < Len(Tx(f.txn_id).output)
    /\ compute_script_hash(Tx(f.txn_id).output[f.output_index + 1].script_pubkey)
            = script_hash
SpendsOutpoint(i) ==
    /\ i.txn_id \in TxIds
    /\ i.funding_output \in Spends(i.txn_id)

\* The loaded candidates that pay nothing to the script hash and spend no
\* output paying it: the index listed them for their txid prefix alone.
Collisions ==
    {t \in reply.loaded :
        /\ \A i \in 1..Len(Tx(t).output) :
              compute_script_hash(Tx(t).output[i].script_pubkey) /= reply.script_hash
        /\ \A o \in Spends(t) : ~PaysScript([txn_id |-> o[1], output_index |-> o[2]],
                                            reply.script_hash)}

\* C6: every funding record of status(S) names an output whose script
\* hashes to S, every spending record names a transaction with an input
\* that spends the record's funding_output, and a candidate listed only for
\* its txid prefix yields no record and no error.
C6_PrefixCollisionsFiltered ==
    reply /= NoReply =>
        /\ IsOk(reply.result)
        /\ \A f \in RangeOf(Status_funding(reply.result[2])) :
              PaysScript(f, reply.script_hash) /\ f.txn_id \notin Collisions
        /\ \A i \in RangeOf(Status_spending(reply.result[2])) :
              SpendsOutpoint(i) /\ i.txn_id \notin Collisions

\* C6 witness: status of script "a" loaded 18 (for the prefix of 17) and 34
\* (for the prefix of 33), neither of which pays or spends "a", and
\* returned records of 17 and 33.
C6_Witness ==
    /\ Answered
    /\ reply.script_hash = compute_script_hash("a")
    /\ {18, 34} \subseteq Collisions
    /\ {f.txn_id : f \in RangeOf(Status_funding(reply.result[2]))} = {17, 33}
    /\ {i.txn_id : i \in RangeOf(Status_spending(reply.result[2]))} = {33}

(***************************************************************************)
(* Claims about the merkle proof (MerkleSpec).                             *)
(***************************************************************************)
\* The merkle root of a block as Bitcoin defines it: hash the level pair by
\* pair, the last element of a level of odd length paired with itself.
RECURSIVE MerkleRoot(_)
MerkleRoot(level) ==
    IF Len(level) = 1 THEN level[1]
    ELSE MerkleRoot([k \in 1..((Len(level) + 1) \div 2) |->
                        merklize(level[2 * k - 1],
                                 IF 2 * k <= Len(level) THEN level[2 * k]
                                 ELSE level[2 * k - 1])])

\* The verifier's fold: the running hash on the left at an even position,
\* on the right at an odd one, the position halved at each step.
RECURSIVE FoldProof(_, _, _)
FoldProof(siblings, running, position) ==
    IF siblings = <<>> THEN running
    ELSE FoldProof(Tail(siblings),
                   IF position % 2 = 0 THEN merklize(running, Head(siblings))
                   ELSE merklize(Head(siblings), running),
                   position \div 2)

BlockTxidsOf(b) == [i \in 1..Len(b) |-> Transaction_txid(b[i])]

\* C7: get_merkle_proof for a transaction at position p of the block at the
\* asked height returns (siblings, p), and folding merklize over siblings
\* from the txid (left when the position is even, right when odd, halving)
\* gives the block's merkle root, for every block size and position; the
\* proof of a one-transaction block is empty.
C7_MerkleProofFolds ==
    (/\ merkle_reply /= NoReply
     /\ merkle_reply.height = 0
     /\ merkle_reply.tx \in RangeOf(block)) =>
        /\ IsOk(merkle_reply.result)
        /\ LET merkle == merkle_reply.result[2][1]
               pos == merkle_reply.result[2][2]
           IN  /\ pos < Len(block)
               /\ block[pos + 1] = merkle_reply.tx
               /\ FoldProof(merkle, Transaction_txid(merkle_reply.tx), pos)
                     = MerkleRoot(BlockTxidsOf(block))
               /\ (Len(block) = 1 => merkle = <<>>)

\* The last transaction of a five-transaction block: its first sibling is
\* its own copy, and the proof has three levels.
C7_Witness ==
    /\ merkle_reply /= NoReply
    /\ IsOk(merkle_reply.result)
    /\ Len(block) = 5
    /\ merkle_reply.result[2][2] = 4
    /\ Len(merkle_reply.result[2][1]) = 3
    /\ merkle_reply.result[2][1][1] = Transaction_txid(merkle_reply.tx)

(***************************************************************************)
(* Claims about the fee estimator (FeeSpec).                               *)
(***************************************************************************)
RECURSIVE Cumulative(_, _)
Cumulative(histogram, k) ==
    IF k = 0 THEN 0 ELSE Cumulative(histogram, k - 1) + histogram[k][2]

\* The rate of the first bucket at which the cumulative vsize reaches
\* blocks x BlockVbytes, of the last bucket when none does, 0 when there
\* is no bucket; in unbounded arithmetic.
ExpectedRate(histogram, blocks) ==
    IF histogram = <<>> THEN 0
    ELSE LET reached == {k \in 1..Len(histogram) :
                            Cumulative(histogram, k) >= blocks * BlockVbytes}
         IN  IF reached = {} THEN histogram[Len(histogram)][1]
             ELSE histogram[CHOOSE k \in reached : \A j \in reached : k <= j][1]

ExpectedFee == Returned(Scale1e5(ExpectedRate(fee_histogram, fee_reply.blocks)))

\* C8: what estimate_fee returns is 1e-5 times the rate of the first bucket
\* at which the cumulative vsize reaches target_blocks x the block size, of
\* the last bucket when the threshold is never reached, and 0.0 for an empty
\* histogram.
C8_EstimateFeeThreshold ==
    (fee_reply /= NoReply /\ fee_reply.result /= Panic) =>
        fee_reply.result = ExpectedFee

\* C9: estimate_fee never aborts, and its answer is the one computed with
\* the true threshold and the true cumulative vsize, also when they do not
\* fit the counters.
C9_EstimateFeeNeverFails ==
    fee_reply /= NoReply =>
        /\ fee_reply.result /= Panic
        /\ fee_reply.result = ExpectedFee

\* estimate_fee answers as claimed whenever the product fits usize and u32
\* and the cumulative vsize of the whole histogram fits u32.
FeeInRange ==
    (/\ fee_reply /= NoReply
     /\ fee_reply.blocks * BlockVbytes < U32
     /\ Cumulative(fee_histogram, Len(fee_histogram)) < U32) =>
        fee_reply.result = ExpectedFee

(***************************************************************************)
(* Claims about the transaction cache (CacheSpec).                         *)
(***************************************************************************)
\* One step of one thread's call, as the claim describes it.
CacheStep(th) ==
    LET before == calls[th]
        after == calls'[th]
    IN  \* a call for a cached txid returns the cached transaction, and no
        \* loader runs
        /\ (before.pc = "idle" /\ after.pc /= "idle"
                /\ after.txid \in DOMAIN tx_cache) =>
               /\ after.pc = "done"
               /\ after.result = Some(Ok(tx_cache[after.txid]))
               /\ loads' = loads
               /\ tx_cache' = tx_cache
        \* a miss goes on to the loader
        /\ (before.pc = "idle" /\ after.pc /= "idle"
                /\ after.txid \notin DOMAIN tx_cache) =>
               /\ after.pc = "load"
               /\ tx_cache' = tx_cache
        \* a loader that fails inserts nothing and the call returns the error
        /\ (before.pc = "load" /\ after.pc = "done") =>
               /\ ~IsOk(after.result[1])
               /\ tx_cache' = tx_cache
        \* a loader that succeeded is followed by the insert, which
        \* overwrites whatever is there
        /\ (before.pc = "insert" /\ after.pc = "done") =>
               /\ DOMAIN tx_cache' = DOMAIN tx_cache \cup {before.txid}
               /\ tx_cache'[before.txid] = before.txn[1]
               /\ \A k \in DOMAIN tx_cache \ {before.txid} : tx_cache'[k] = tx_cache[k]
               /\ after.result = Some(Ok(before.txn[1]))

\* C10: under any interleaving of get_or_else calls the cached txids only
\* grow, a call for a cached txid returns the cached transaction without
\* the loader, an insert overwrites the earlier one of a concurrent miss,
\* and a failed loader inserts nothing and returns the error.
C10_CacheProtocol ==
    [][/\ DOMAIN tx_cache \subseteq DOMAIN tx_cache'
       /\ \A th \in Threads : CacheStep(th)
       /\ loads' /= loads => \E th \in Threads : calls[th].pc = "load"]_vars

\* Two calls missed on the same txid, both ran the loader, and the cache
\* holds the later copy while the first call returned the earlier one.
C10_Witness ==
    /\ calls[1].pc = "done" /\ calls[2].pc = "done"
    /\ calls[1].txid = calls[2].txid
    /\ calls[1].txn /= None /\ calls[2].txn /= None
    /\ calls[1].result = Some(Ok(calls[1].txn[1]))
    /\ calls[2].result = Some(Ok(calls[2].txn[1]))
    /\ calls[1].txn[1].load = 1 /\ calls[2].txn[1].load = 2
    /\ tx_cache[calls[1].txid] = calls[2].txn[1]

(***************************************************************************)
(* More claims about the status engine (Spec).                             *)
(***************************************************************************)
\* The heights of a vector of outputs, as the signed heights the spec and
\* history() give them (-1 for a mempool output with an unconfirmed parent).
SignedHeights(outputs) == [i \in 1..Len(outputs) |-> AsI32(outputs[i].height)]

\* C11: unspent() returns its outputs sorted ascending by height, also when
\* mempool records of synthetic height 0 or -1 stand next to confirmed
\* records of positive height.
C11_UnspentAscending ==
    Answered =>
        \A u \in Status_unspent(reply.result[2]) :
            \A i, j \in 1..Len(u) :
                i < j => SignedHeights(u)[i] <= SignedHeights(u)[j]

\* The order unspent() does keep: ascending by the stored u32, where the
\* synthetic height -1 is the largest value.
UnspentAscendingU32 ==
    Answered =>
        \A u \in Status_unspent(reply.result[2]) :
            \A i, j \in 1..Len(u) : i < j => u[i].height <= u[j].height

\* C12: a status(S) call that follows another status(S) call with no change
\* to the persisted index, the headers, the tracker or the daemon between
\* them returns the same Status, records in the same order, although the
\* first call filled the transaction cache.
C12_StatusDeterministic ==
    (reply /= NoReply /\ reply.previous /= None) =>
        reply.result = reply.previous[1]

\* A repeated call whose transactions all came from the cache and whose
\* Status has confirmed and mempool records.
C12_Witness ==
    /\ Answered
    /\ reply.previous /= None
    /\ reply.loaded /= {}
    /\ reply.loaded \subseteq DOMAIN tx_cache
    /\ reply.result[2].confirmed[1] /= <<>>
    /\ reply.result[2].mempool[2] /= <<>>

\* The spending records an index owes to a vector of funding outputs: one
\* for every transaction of the index with an input on the output's
\* outpoint, at the height the index has the transaction, with the output's
\* outpoint and value.
SpendersIn(s, outputs) ==
    {SpendingInput(row.txid, row.height,
                   OutPoint(f.txn_id, f.output_index), f.value) :
        <<row, f>> \in {<<r, g>> \in s.tx \X RangeOf(outputs) :
                           OutPoint(g.txn_id, g.output_index) \in Spends(r.txid)}}

\* C13: the mempool spending records of status(S) are those the mempool
\* index owes to the mempool funding outputs and to the confirmed funding
\* outputs (a mempool spend of a confirmed output carries that output's
\* outpoint and value); the confirmed spending records are those the
\* persisted index owes to the confirmed funding outputs alone.
C13_MempoolSpendsConfirmed ==
    Answered =>
        LET s == reply.result[2]
        IN  /\ RangeOf(s.mempool[2])
                  = SpendersIn(tracker.index, s.mempool[1] \o s.confirmed[1])
            /\ RangeOf(s.confirmed[2]) = SpendersIn(store, s.confirmed[1])

\* Transaction 17 is confirmed, its output to "a" is spent by mempool
\* transaction 33: the spend is a mempool record and no confirmed one.
C13_Witness ==
    /\ Answered
    /\ IsConfirmed(17)
    /\ reply.result[2].confirmed[2] = <<>>
    /\ \E i \in RangeOf(reply.result[2].mempool[2]) :
          /\ i.txn_id = 33
          /\ i.funding_output = OutPoint(17, 0)
          /\ i.value = 2
          /\ OutPoint(17, 0) \in KeysOf(reply.result[2].confirmed[1])
          /\ OutPoint(17, 0) \notin KeysOf(reply.result[2].mempool[1])

\* The transactions of an index with an input on an outpoint.
SpendersOf(s, outpoint) == {r \in s.tx : outpoint \in Spends(r.txid)}

AllOutpoints == {OutPoint(t, v) : t \in TxIds \cup {GenesisTxid}, v \in OutputIndexes}

MempoolSteps == {"scan", "load", "lookup_read", "lookup", "spending", "return"}

\* C15: every mempool step of a status(S) call runs under the one shared
\* guard mempool_status took, all of them read the same state of the
\* tracker, and update_mempool holds the lock only while no query holds it.
C15_MempoolUnderOneGuard ==
    /\ \A q \in Threads :
          /\ queries[q].pc \in MempoolSteps =>
                 /\ rwlock.readers[q] >= 1
                 /\ ~rwlock.writer
                 /\ queries[q].seen \subseteq {tracker_version}
          /\ Cardinality(queries[q].seen) <= 1
    /\ rwlock.writer <=> updater = "writing"
    /\ rwlock.writer => \A q \in Threads : rwlock.readers[q] = 0

\* A call has read the tracker in every mempool step after one update,
\* through a nested lookup too, while the next update waits for the lock.
C15_Witness ==
    /\ queries[1].pc = "return"
    /\ queries[1].seen = {1}
    /\ updater = "write_wait"
    /\ queries[2].pc = "lookup"

\* A query that holds the shared guard of mempool_status waits in
\* lookup_confirmed_blockhash for a second shared guard that the lock does
\* not grant while update_mempool waits for the exclusive one.
LockDeadlocked ==
    \E q \in Threads :
        /\ queries[q].pc = "lookup_read"
        /\ rwlock.readers[q] >= 1
        /\ updater = "write_wait"
        /\ ~CanRead
        /\ ~CanWrite

\* C16: the tracker lock never deadlocks: no reachable state has a query
\* holding the shared lock in mempool_status and blocked on taking it again
\* while update_mempool is blocked on the exclusive lock.
C16_NoLockDeadlock == ~LockDeadlocked

(***************************************************************************)
(* The spending records of a returned Status (Spec).                       *)
(***************************************************************************)
\* How many records of a vector name the outpoint.
FundingCount(outputs, outpoint) ==
    Cardinality({j \in 1..Len(outputs) :
                    OutPoint(outputs[j].txn_id, outputs[j].output_index) = outpoint})
SpendingCount(inputs, outpoint) ==
    Cardinality({j \in 1..Len(inputs) : inputs[j].funding_output = outpoint})

\* Every spending record names a funding record of `outputs` and carries
\* its value, and no outpoint has more spending records than funding
\* records.
SpendingFromFunding(inputs, outputs) ==
    /\ \A i \in RangeOf(inputs) :
          \E f \in RangeOf(outputs) :
              /\ OutPoint(f.txn_id, f.output_index) = i.funding_output
              /\ f.value = i.value
    /\ \A o \in AllOutpoints :
          SpendingCount(inputs, o) <= FundingCount(outputs, o)

====
